---- MODULE Spec2Model ----
(***************************************************************************)
(* Model of client/client.go: Client.SetDefaults, Client.Do,               *)
(* Client.newRequest, ClientFromContext, GetShortConnClient, Result.Into   *)
(* and isOk.                                                               *)
(***************************************************************************)
EXTENDS Integers, Sequences, FiniteSets, TLC

VARIABLES pc, client, call, result, ret, intoCalls, closeCount

vars == <<pc, client, call, result, ret, intoCalls, closeCount>>

\* ------------------------------------------------------------------ bounds
MaxMiddlewares == 3
MaxMetaVals == 2
MaxInto == 2

\* ------------------------------------------------------- program constants
StatusOK == 200
StatusMultipleChoices == 300
CodeScale == 1000000

\* ------------------------------------------------------------ error values
\* An error value: its classification, its numeric code (modelled for the
\* status-derived error of the default policy only) and its description, a
\* sequence of message parts.
NoErr == [kind |-> "nil", code |-> 0, desc |-> <<>>]

RequestTransformFailed == "RequestTransformFailed"
RequestFailed == "RequestFailed"
ReadFailed == "ReadFailed"

StatusErr(kind) == [kind |-> kind, code |-> 0, desc |-> <<>>]

WithDesc(e, d) == [e EXCEPT !.desc = d]

\* err.Error(): the message of an error names its kind and its description.
Error(e) == <<e.kind>> \o e.desc

\* --------------------------------------------------------------- responses
Statuses == {199, 200, 299, 300, 404}

NoResponse == [present |-> FALSE, StatusCode |-> 0, hasBody |-> FALSE]

Response(status) == [present |-> TRUE, StatusCode |-> status, hasBody |-> TRUE]

\* isOk with the upper limit included.
isOkInclusive(code) == code >= StatusOK /\ code <= StatusMultipleChoices

isOk(code) == code >= StatusOK /\ code < StatusMultipleChoices

\* ---------------------------------------------------------- error policies
Policies == {"unset", "custom", "returnsNil"}

DefaultNewError(resp) ==
    [kind |-> "StatusErr", code |-> resp.StatusCode * CodeScale, desc |-> <<"status">>]

\* Calling the Result's NewError function value on a response.
NewError(policy, resp) ==
    CASE policy = "default" -> DefaultNewError(resp)
      [] policy = "custom" -> [kind |-> "custom", code |-> resp.StatusCode, desc |-> <<"policy">>]
      [] policy = "returnsNil" -> NoErr

\* ------------------------------------------------------------- middlewares
Middlewares == {"log", "auth", "trace"}

BaseTransport == "base"

LogRoundTripper == "log"

SeqsUpTo(S, n) == UNION {[1..k -> S] : k \in 0..n}

\* A slice: nil, or a list of elements.
NilSlice == [isNil |-> TRUE, elems |-> <<>>]

Slice(s) == [isNil |-> FALSE, elems |-> s]

\* A transport is the list of its layers, innermost first; a middleware applied
\* to a transport returns a transport with one more layer around it.
Wrap(httpTransport, transport) == Append(transport, httpTransport)

RECURSIVE WrapFrom(_, _, _)
WrapFrom(transport, elems, i) ==
    IF i > Len(elems) THEN transport
    ELSE WrapFrom(Wrap(elems[i], transport), elems, i + 1)

RECURSIVE WrapDownFrom(_, _, _)
WrapDownFrom(transport, elems, i) ==
    IF i < 1 THEN transport
    ELSE WrapDownFrom(Wrap(elems[i], transport), elems, i - 1)

\* GetShortConnClient with the loop running from the last middleware to the first.
GetShortConnClientReversed(timeout, httpTransports) ==
    LET base == [Timeout |-> timeout, Transport |-> <<BaseTransport>>, DisableKeepAlives |-> TRUE]
    IN  IF httpTransports.isNil THEN base
        ELSE [base EXCEPT !.Transport =
                WrapDownFrom(base.Transport, httpTransports.elems, Len(httpTransports.elems))]

GetShortConnClient(timeout, httpTransports) ==
    LET base == [Timeout |-> timeout, Transport |-> <<BaseTransport>>, DisableKeepAlives |-> TRUE]
    IN  IF httpTransports.isNil THEN base
        ELSE [base EXCEPT !.Transport = WrapFrom(base.Transport, httpTransports.elems, 1)]

\* One round trip through a transport: each layer sees the request, hands it to
\* the layer it wraps, and sees what comes back.
RECURSIVE RoundTrip(_)
RoundTrip(transport) ==
    IF Len(transport) = 1
    THEN [req |-> <<transport[1]>>, resp |-> <<transport[1]>>]
    ELSE LET inner == RoundTrip(SubSeq(transport, 1, Len(transport) - 1))
             outer == transport[Len(transport)]
         IN  [req |-> <<outer>> \o inner.req, resp |-> Append(inner.resp, outer)]

\* ----------------------------------------------------------------- headers
CanonKeys == {"X", "Y"}

MetaKeys == {"X", "x", "Y"}

\* textproto.CanonicalMIMEHeaderKey, as Header.Add applies it to the key.
CanonicalMIMEHeaderKey(k) == IF k = "x" THEN "X" ELSE k

EmptyHeader == [k \in CanonKeys |-> <<>>]

\* Header.Set in place of Header.Add: the value replaces the list.
HeaderSet(h, k, v) == [h EXCEPT ![CanonicalMIMEHeaderKey(k)] = <<v>>]

HeaderAdd(h, k, v) == [h EXCEPT ![CanonicalMIMEHeaderKey(k)] = Append(@, v)]

DescVal(k) == <<"desc", k, 1>>

MetaVal(k, i) == <<"meta", k, i>>

DescHeaders ==
    {EmptyHeader,
     [EmptyHeader EXCEPT !["X"] = <<DescVal("X")>>],
     [EmptyHeader EXCEPT !["X"] = <<DescVal("X")>>, !["Y"] = <<DescVal("Y")>>]}

RECURSIVE Total(_, _)
Total(f, S) ==
    IF S = {} THEN 0
    ELSE LET k == CHOOSE x \in S : TRUE IN f[k] + Total(f, S \ {k})

\* Caller metadata as courier.FromMetas hands it to the loop: a map from key to
\* value list, with at most n values in all.
Metas(n) ==
    {[k \in MetaKeys |-> [i \in 1..f[k] |-> MetaVal(k, i)]] :
        f \in {g \in [MetaKeys -> 0..n] : Total(g, MetaKeys) <= n}}

\* The orders in which a range over the map may visit its keys.
Orders ==
    {o \in [1..Cardinality(MetaKeys) -> MetaKeys] :
        \A i, j \in DOMAIN o : i # j => o[i] # o[j]}

\* ---------------------------------------------------------------- requests
NoRequest == [present |-> FALSE, Header |-> EmptyHeader, Context |-> "none"]

RawRequest ==
    [kind |-> "raw", fails |-> FALSE, Header |-> [EmptyHeader EXCEPT !["X"] = <<<<"raw", "X", 1>>>>]]

Descriptors ==
    {[kind |-> "descriptor", fails |-> FALSE, Header |-> h] : h \in DescHeaders}
    \cup {[kind |-> "descriptor", fails |-> TRUE, Header |-> EmptyHeader]}

\* RequestTransformerMgr.NewRequest: serializes the descriptor's fields, or fails.
NewRequest(req) ==
    IF req.fails
    THEN [err |-> [kind |-> "transform", code |-> 0, desc |-> <<"field">>], request |-> NoRequest]
    ELSE [err |-> NoErr,
          request |-> [present |-> TRUE, Header |-> req.Header, Context |-> "none"]]

RECURSIVE AddValues(_, _, _)
AddValues(h, k, vs) ==
    IF vs = <<>> THEN h ELSE AddValues(HeaderAdd(h, k, Head(vs)), k, Tail(vs))

RECURSIVE AddMetas(_, _, _)
AddMetas(h, meta, order) ==
    IF order = <<>> THEN h
    ELSE AddMetas(AddValues(h, Head(order), meta[Head(order)]), meta, Tail(order))

newRequest(ctx, req, meta, order) ==
    LET ctx2 == IF ctx = "nil" THEN "background" ELSE ctx
        built == NewRequest(req)
    IN  IF built.err # NoErr
        THEN [err |-> WithDesc(StatusErr(RequestTransformFailed), Error(built.err)),
              request |-> NoRequest]
        ELSE [err |-> NoErr,
              request |-> [built.request EXCEPT
                              !.Context = ctx2,
                              !.Header = AddMetas(@, meta, order)]]

\* ---------------------------------------------------------------- contexts
\* nil, a context without the key, one carrying an executor, one carrying a
\* nil *http.Client.
Ctxs == {"nil", "background", "injected", "nilClient"}

InjectedClient ==
    [Timeout |-> 9, Transport |-> <<"pooled">>, DisableKeepAlives |-> FALSE]

NoClient == [Timeout |-> 0, Transport |-> <<>>, DisableKeepAlives |-> FALSE]

\* ctx.Value("courier.Client").(*http.Client)
CtxValue(ctx) ==
    CASE ctx = "injected" -> [ok |-> TRUE, c |-> InjectedClient]
      [] ctx = "nilClient" -> [ok |-> TRUE, c |-> NoClient]
      [] OTHER -> [ok |-> FALSE, c |-> NoClient]

\* ClientFromContext that never finds the executor.
ClientFromContextNone(ctx) == NoClient

ClientFromContext(ctx) ==
    IF ctx = "nil" THEN NoClient
    ELSE IF CtxValue(ctx).ok THEN CtxValue(ctx).c
    ELSE NoClient

\* ------------------------------------------------------------------ client
Timeouts == {0, 3}

\* The clients the calls are made on.
Clients ==
    [Timeout : {3},
     hasTransformerMgr : BOOLEAN,
     HttpTransports : {NilSlice, Slice(<<>>), Slice(<<"log", "auth">>)},
     NewError : Policies]

SetDefaultsOf(c) ==
    [c EXCEPT
        !.hasTransformerMgr = TRUE,
        !.HttpTransports = IF @.isNil THEN Slice(<<LogRoundTripper>>) ELSE @,
        !.NewError = IF @ = "unset" THEN "default" ELSE @]

\* --------------------------------------------------------------- executors
\* What httpClient.Do can return: an error without a response, an error with
\* a response (a refused redirect), or a response.
ExecOutcomes ==
    {[err |-> TRUE, resp |-> NoResponse], [err |-> TRUE, resp |-> Response(302)]}
    \cup {[err |-> FALSE, resp |-> Response(s)] : s \in Statuses}

ExecErr == [kind |-> "transport", code |-> 0, desc |-> <<"dial">>]

\* The Result Do returns once the request could not be built.
BuildFailedResult(c, err) ==
    [Err |-> WithDesc(StatusErr(RequestFailed), Error(err)),
     NewError |-> c.NewError,
     Response |-> NoResponse]

\* ExecResult that keeps the response the executor returned beside its error.
ExecResultKeepsResponse(c, out) ==
    IF out.err
    THEN [Err |-> WithDesc(StatusErr(RequestFailed), Error(ExecErr)),
          NewError |-> c.NewError,
          Response |-> out.resp]
    ELSE [Err |-> NoErr, NewError |-> c.NewError, Response |-> out.resp]

\* The Result Do returns after the executor was called.
ExecResult(c, out) ==
    IF out.err
    THEN [Err |-> WithDesc(StatusErr(RequestFailed), Error(ExecErr)),
          NewError |-> c.NewError,
          Response |-> NoResponse]
    ELSE [Err |-> NoErr, NewError |-> c.NewError, Response |-> out.resp]

NoResult == [Err |-> NoErr, NewError |-> "unset", Response |-> NoResponse]

NoCall ==
    [ctx |-> "nil", req |-> RawRequest, meta |-> [k \in MetaKeys |-> <<>>],
     buildErr |-> NoErr, request |-> NoRequest,
     via |-> "none", created |-> 0, execCalls |-> 0, executor |-> NoClient,
     reqSeen |-> <<>>, respSeen |-> <<>>, out |-> [err |-> FALSE, resp |-> NoResponse]]

\* The effect of Do on the record of the call.
DoCall(c, ctx, req, meta, order, out) ==
    LET built == IF req.kind = "raw"
                 THEN [err |-> NoErr,
                       request |-> [present |-> TRUE, Header |-> req.Header, Context |-> "background"]]
                 ELSE newRequest(ctx, req, meta, order)
        fromCtx == ClientFromContext(ctx)
        httpClient == IF fromCtx = NoClient
                      THEN GetShortConnClient(c.Timeout, c.HttpTransports)
                      ELSE fromCtx
        trip == RoundTrip(httpClient.Transport)
        start == [NoCall EXCEPT !.ctx = ctx, !.req = req, !.meta = meta,
                                !.buildErr = built.err, !.request = built.request]
    IN  IF built.err # NoErr THEN start
        ELSE [start EXCEPT
                !.via = IF fromCtx = NoClient THEN "fresh" ELSE "injected",
                !.created = IF fromCtx = NoClient THEN 1 ELSE 0,
                !.execCalls = 1,
                !.executor = httpClient,
                !.reqSeen = trip.req,
                !.respSeen = trip.resp,
                !.out = out]

DoResult(c, ctx, req, meta, order, out) ==
    LET cl == DoCall(c, ctx, req, meta, order, out)
    IN  IF cl.buildErr # NoErr THEN BuildFailedResult(c, cl.buildErr)
        ELSE ExecResult(c, out)

\* ----------------------------------------------------------------- targets
TargetErr == [kind |-> "target", code |-> 0, desc |-> <<"declared">>]

Target(name, isError, isWriter, hasHeader) ==
    [name |-> name, isNil |-> FALSE, isError |-> isError, isWriter |-> isWriter,
     hasHeader |-> hasHeader, errVal |-> IF isError THEN TargetErr ELSE NoErr]

NilTarget ==
    [name |-> "nil", isNil |-> TRUE, isError |-> FALSE, isWriter |-> FALSE,
     hasHeader |-> FALSE, errVal |-> NoErr]

Targets ==
    {NilTarget,
     Target("error", TRUE, FALSE, FALSE),
     Target("writer", FALSE, TRUE, FALSE),
     Target("responseWriter", FALSE, TRUE, TRUE),
     Target("writerError", TRUE, TRUE, FALSE),
     Target("struct", FALSE, FALSE, FALSE)}

\* The error policy's value stored in body: nil, or an error value.
PolicyTarget(e) ==
    IF e = NoErr THEN NilTarget
    ELSE [name |-> "policyError", isNil |-> FALSE, isError |-> TRUE, isWriter |-> FALSE,
          hasHeader |-> FALSE, errVal |-> e]

\* -------------------------------------------------------------------- Into
\* How reading the body goes: the copy fails, no transformer is found, the
\* decode fails, or none of these.
Outcomes == {"ok", "copyFailed", "noTransformer", "decodeFailed"}

\* Dispatch with the writer case tested before the error case.
DispatchWriterFirst(body, io) ==
    IF body.isNil THEN [err |-> NoErr, path |-> "nilBody", touched |-> {}]
    ELSE IF body.isWriter THEN
        LET hdr == IF body.hasHeader THEN {"header"} ELSE {}
        IN  IF io # "copyFailed"
            THEN [err |-> NoErr, path |-> "copied", touched |-> hdr \cup {"copy"}]
            ELSE [err |-> WithDesc(StatusErr(ReadFailed), <<"copy">>),
                  path |-> "copyFailed", touched |-> hdr \cup {"copy"}]
    ELSE IF body.isError THEN [err |-> body.errVal, path |-> "error", touched |-> {}]
    ELSE IF io = "noTransformer"
        THEN [err |-> WithDesc(StatusErr(ReadFailed), <<"transformer">>),
              path |-> "noTransformer", touched |-> {}]
    ELSE IF io = "decodeFailed"
        THEN [err |-> WithDesc(StatusErr(ReadFailed), <<"decode">>),
              path |-> "decodeFailed", touched |-> {"decode"}]
    ELSE [err |-> NoErr, path |-> "decoded", touched |-> {"decode"}]

\* The type switch on body and what each case does to the target.
Dispatch(body, io) ==
    IF body.isNil THEN [err |-> NoErr, path |-> "nilBody", touched |-> {}]
    ELSE IF body.isError THEN [err |-> body.errVal, path |-> "error", touched |-> {}]
    ELSE IF body.isWriter THEN
        LET hdr == IF body.hasHeader THEN {"header"} ELSE {}
        IN  IF io # "copyFailed"
            THEN [err |-> NoErr, path |-> "copied", touched |-> hdr \cup {"copy"}]
            ELSE [err |-> WithDesc(StatusErr(ReadFailed), <<"copy">>),
                  path |-> "copyFailed", touched |-> hdr \cup {"copy"}]
    ELSE IF io = "noTransformer"
        THEN [err |-> WithDesc(StatusErr(ReadFailed), <<"transformer">>),
              path |-> "noTransformer", touched |-> {}]
    ELSE IF io = "decodeFailed"
        THEN [err |-> WithDesc(StatusErr(ReadFailed), <<"decode">>),
              path |-> "decodeFailed", touched |-> {"decode"}]
    ELSE [err |-> NoErr, path |-> "decoded", touched |-> {"decode"}]

\* What Into returns, and by which path.
IntoReturn(r, body, io) ==
    IF r.Err # NoErr
    THEN [meta |-> "nil", err |-> r.Err, path |-> "preflight", gated |-> FALSE,
          touched |-> {}, fault |-> FALSE]
    ELSE IF ~r.Response.present
    THEN [meta |-> "nil", err |-> NoErr, path |-> "fault", gated |-> FALSE,
          touched |-> {}, fault |-> TRUE]
    ELSE LET gated == ~isOk(r.Response.StatusCode)
             body2 == IF gated THEN PolicyTarget(NewError(r.NewError, r.Response)) ELSE body
             d == Dispatch(body2, io)
         IN  [meta |-> "header", err |-> d.err, path |-> d.path, gated |-> gated,
              touched |-> d.touched, fault |-> FALSE]

\* A Close placed after the status gate instead of in the deferred function.
CloseAfterGate(r) ==
    IF r.Response.present /\ r.Response.hasBody /\ isOk(r.Response.StatusCode) THEN 1 ELSE 0

\* The deferred function: the number of Close calls it makes.
DeferredClose(r) == IF r.Response.present /\ r.Response.hasBody THEN 1 ELSE 0

NoRet ==
    [called |-> FALSE, target |-> NilTarget, meta |-> "nil", err |-> NoErr, path |-> "none",
     gated |-> FALSE, touched |-> {}, fault |-> FALSE, closes |-> 0]

\* ----------------------------------------------------------------- actions
Init ==
    /\ pc = "new"
    /\ client \in Clients
    /\ call = NoCall
    /\ result = NoResult
    /\ ret = NoRet
    /\ intoCalls = 0
    /\ closeCount = 0

SetDefaults ==
    /\ pc = "new"
    /\ pc' = "ready"
    /\ client' = SetDefaultsOf(client)
    /\ UNCHANGED <<call, result, ret, intoCalls, closeCount>>

DoMetas == Metas(1)

Do(ctx, req, meta, order, out) ==
    /\ pc = "ready"
    /\ pc' = "returned"
    /\ call' = DoCall(client, ctx, req, meta, order, out)
    /\ result' = DoResult(client, ctx, req, meta, order, out)
    /\ ret' = NoRet
    /\ intoCalls' = 0
    /\ closeCount' = 0
    /\ UNCHANGED client

Into(body, io) ==
    /\ pc = "returned"
    /\ intoCalls < MaxInto
    /\ LET got == IntoReturn(result, body, io)
           closes == DeferredClose(result)
       IN  /\ ret' = [called |-> TRUE, target |-> body, meta |-> got.meta, err |-> got.err,
                      path |-> got.path, gated |-> got.gated, touched |-> got.touched,
                      fault |-> got.fault, closes |-> closes]
           /\ closeCount' = closeCount + closes
    /\ intoCalls' = intoCalls + 1
    /\ UNCHANGED <<pc, client, call, result>>

Next ==
    \/ SetDefaults
    \/ \E ctx \in Ctxs, req \in {RawRequest} \cup Descriptors, meta \in DoMetas,
          order \in Orders, out \in ExecOutcomes :
            Do(ctx, req, meta, order, out)
    \/ \E body \in Targets, io \in Outcomes : Into(body, io)

Spec == Init /\ [][Next]_vars

\* ------------------------------------------- request building on its own
InitRequest ==
    /\ pc = "input"
    /\ client = SetDefaultsOf([Timeout |-> 3, hasTransformerMgr |-> FALSE,
                               HttpTransports |-> NilSlice, NewError |-> "unset"])
    /\ call \in {[NoCall EXCEPT !.ctx = c, !.req = d, !.meta = m] :
                    c \in Ctxs, d \in Descriptors, m \in Metas(MaxMetaVals)}
    /\ result = NoResult
    /\ ret = NoRet
    /\ intoCalls = 0
    /\ closeCount = 0

BuildRequest(order) ==
    /\ pc = "input"
    /\ pc' = "built"
    /\ LET built == newRequest(call.ctx, call.req, call.meta, order)
       IN  call' = [call EXCEPT !.buildErr = built.err, !.request = built.request]
    /\ UNCHANGED <<client, result, ret, intoCalls, closeCount>>

NextRequest == \E order \in Orders : BuildRequest(order)

SpecRequest == InitRequest /\ [][NextRequest]_vars

\* ----------------------------------------- executor construction on its own
InitTransport ==
    /\ pc = "configured"
    /\ client \in [Timeout : Timeouts,
                   hasTransformerMgr : {TRUE},
                   HttpTransports : {NilSlice} \cup
                        {Slice(s) : s \in SeqsUpTo(Middlewares, MaxMiddlewares)},
                   NewError : {"default"}]
    /\ call = NoCall
    /\ result = NoResult
    /\ ret = NoRet
    /\ intoCalls = 0
    /\ closeCount = 0

NewExecutor ==
    /\ pc = "configured"
    /\ pc' = "sent"
    /\ LET httpClient == GetShortConnClient(client.Timeout, client.HttpTransports)
           trip == RoundTrip(httpClient.Transport)
       IN  call' = [call EXCEPT !.via = "fresh", !.created = 1, !.execCalls = 1,
                                !.executor = httpClient,
                                !.reqSeen = trip.req, !.respSeen = trip.resp]
    /\ UNCHANGED <<client, result, ret, intoCalls, closeCount>>

NextTransport == NewExecutor

SpecTransport == InitTransport /\ [][NextTransport]_vars

\* ================================================================== claims
Status == result.Response.StatusCode

NonOkStatus == Status < 200 \/ Status >= 300

\* C1: a single Into call on a Result with a response and a body closes the
\* body exactly once, whatever path the call leaves by; on a Result with only
\* a pre-flight error it closes nothing and does not fault.
C1_CloseOncePerInto ==
    ret.called =>
        /\ (result.Response.present /\ result.Response.hasBody) => ret.closes = 1
        /\ (~result.Response.present) => (ret.closes = 0 /\ ~ret.fault /\ ret.err = result.Err)

C1_Witness ==
    /\ ret.called
    /\ result.Response.present
    /\ ret.path = "decodeFailed"
    /\ ret.closes = 1

C1_WitnessGated ==
    ret.called /\ result.Response.present /\ ret.gated /\ ret.closes = 1

C1_WitnessPreflight ==
    ret.called /\ ret.path = "preflight" /\ ret.closes = 0

\* C2: over the lifetime of one Result with a response, after one or more Into
\* calls the body has been closed exactly once.
C2_ClosedOnceOverLifetime ==
    (result.Response.present /\ intoCalls >= 1) => closeCount = 1

\* C3: on a status outside [200, 300) Into returns exactly the error policy's
\* value for the response and does nothing to the caller's target.
C3_StatusGate ==
    (ret.called /\ result.Response.present /\ NonOkStatus) =>
        /\ ret.err = NewError(result.NewError, result.Response)
        /\ ret.touched = {}

C3_Witness ==
    /\ ret.called
    /\ result.Response.present
    /\ Status = 300
    /\ ret.target.name = "struct"
    /\ ret.err.kind = "StatusErr"
    /\ ret.touched = {}

\* C4: Into returns a nil error only on a 2xx status with a nil target or a
\* successful copy or decode; a non-2xx status or a pre-flight error always
\* gives a non-nil error, whatever the error policy.
C4_NilErrorOnlyOn2xx ==
    (ret.called /\ ret.err = NoErr) =>
        /\ result.Response.present
        /\ ~NonOkStatus
        /\ ret.path \in {"nilBody", "copied", "decoded"}

\* C5: a Result returned by Do holds a pre-flight error or a response, never
\* both and never neither.
C5_ErrXorResponse ==
    pc = "returned" =>
        /\ (result.Err # NoErr \/ result.Response.present)
        /\ ~(result.Err # NoErr /\ result.Response.present)

C5_Witness ==
    /\ pc = "returned"
    /\ call.out.err
    /\ call.out.resp.present
    /\ result.Err # NoErr
    /\ ~result.Response.present

\* C6: when building the request fails the caller receives an error of kind
\* RequestTransformFailed, and RequestFailed only when the executor failed.
C6_BuildFailureKind ==
    ret.called =>
        /\ (call.buildErr # NoErr) => ret.err.kind = RequestTransformFailed
        /\ (ret.err.kind = RequestFailed) => (call.execCalls = 1 /\ call.out.err)

Reverse(s) == [i \in 1..Len(s) |-> s[Len(s) + 1 - i]]

\* C7: the executor built for middlewares m1..mn shows the request to
\* mn, ..., m1 and then the base transport, and the response to the base
\* transport and then m1, ..., mn; each middleware is one layer.
C7_MiddlewareOrder ==
    pc = "sent" =>
        LET ms == client.HttpTransports.elems
        IN  /\ call.reqSeen = Reverse(ms) \o <<BaseTransport>>
            /\ call.respSeen = <<BaseTransport>> \o ms
            /\ Len(call.executor.Transport) = Len(ms) + 1

C7_Witness ==
    /\ pc = "sent"
    /\ Len(client.HttpTransports.elems) >= 2
    /\ client.HttpTransports.elems[1] # client.HttpTransports.elems[2]
    /\ call.reqSeen[1] = client.HttpTransports.elems[Len(client.HttpTransports.elems)]

\* C8: Do sends through the executor the context carries and builds none, or
\* builds a fresh non-keep-alive one with the Client's timeout and middlewares;
\* the executor is called once when the request was built and never otherwise.
C8_ExecutorResolution ==
    pc = "returned" =>
        /\ (call.buildErr # NoErr) => (call.execCalls = 0 /\ call.created = 0)
        /\ (call.buildErr = NoErr) =>
            /\ call.execCalls = 1
            /\ (call.ctx = "injected") =>
                (call.created = 0 /\ call.via = "injected" /\ call.executor = InjectedClient)
            /\ (call.ctx # "injected") =>
                /\ call.created = 1
                /\ call.via = "fresh"
                /\ call.executor.Timeout = client.Timeout
                /\ call.executor.DisableKeepAlives
                /\ call.executor.Transport = <<BaseTransport>> \o client.HttpTransports.elems

C8_Witness ==
    /\ pc = "returned"
    /\ call.ctx = "injected"
    /\ call.via = "injected"
    /\ call.execCalls = 1
    /\ call.created = 0

C8_WitnessFresh ==
    pc = "returned" /\ call.ctx = "nil" /\ call.via = "fresh" /\ call.created = 1

\* The caller's metadata keys that name header K, in each order a range over
\* the map may visit them.
AliasOrders(K) ==
    LET A == {k \in MetaKeys : CanonicalMIMEHeaderKey(k) = K}
    IN  {o \in [1..Cardinality(A) -> A] : \A i, j \in DOMAIN o : i # j => o[i] # o[j]}

RECURSIVE ConcatMeta(_, _)
ConcatMeta(meta, o) ==
    IF o = <<>> THEN <<>> ELSE meta[Head(o)] \o ConcatMeta(meta, Tail(o))

\* C9: for every header K of a request built from a descriptor, the values
\* under K are the descriptor's values for K followed by the caller's metadata
\* values for K, each key's values in order; nothing is removed or replaced.
C9_MetadataAdditive ==
    (pc = "built" /\ call.request.present) =>
        \A K \in CanonKeys :
            \E o \in AliasOrders(K) :
                call.request.Header[K] = call.req.Header[K] \o ConcatMeta(call.meta, o)

C9_Witness ==
    /\ pc = "built"
    /\ call.request.present
    /\ call.req.Header["X"] = <<DescVal("X")>>
    /\ call.meta["X"] = <<MetaVal("X", 1)>>
    /\ call.request.Header["X"] = <<DescVal("X"), MetaVal("X", 1)>>

\* C10 (as claimed): on a 2xx response a target that is both a writer and an
\* error is treated as a sink: the body is copied into it.
C10_WriterBeforeError ==
    (ret.called /\ result.Response.present /\ ~NonOkStatus
        /\ ret.target.isWriter /\ ret.target.isError) =>
        /\ ret.path \in {"copied", "copyFailed"}
        /\ "copy" \in ret.touched
        /\ (ret.path = "copied") => ret.err = NoErr

\* C10 (amended): on a 2xx response the error capability is tested first, then
\* the writer capability, then the structured decode: a target that is both a
\* writer and an error is returned as the call's error and nothing is copied.
C10_ErrorBeforeWriter ==
    (ret.called /\ result.Response.present /\ ~NonOkStatus /\ ~ret.target.isNil) =>
        /\ ret.target.isError =>
            (ret.path = "error" /\ ret.err = ret.target.errVal /\ ret.touched = {})
        /\ (~ret.target.isError /\ ret.target.isWriter) =>
            (ret.path \in {"copied", "copyFailed"} /\ "copy" \in ret.touched)
        /\ (~ret.target.isError /\ ~ret.target.isWriter) =>
            ret.path \in {"noTransformer", "decodeFailed", "decoded"}

C10_Witness ==
    /\ ret.called
    /\ result.Response.present
    /\ ~NonOkStatus
    /\ ret.target.name = "writerError"
    /\ ret.path = "error"
    /\ ret.err = TargetErr

====
